---- MODULE Spec2Model ----
(***************************************************************************)
(* The mixing console's Rack (Rack.svelte), its Strip components with      *)
(* their rust-seteffect / rust-removeeffect listeners (Strip.svelte), the  *)
(* Input / Output route selectors (Input.svelte, Output.svelte), the       *)
(* Effect controls (Effect.svelte), the gain dial, and the config store   *)
(* of console.tsx.                                                         *)
(*                                                                         *)
(* Indices in event payloads are JavaScript indices (0-based); positions   *)
(* in the TLA+ sequences are 1-based, so strip_index j is position j + 1.  *)
(***************************************************************************)
EXTENDS Integers, Sequences, FiniteSets, TLC

VARIABLES
    strips,     \* Rack: `let strips: any[]`, the ordered strips
    comps,      \* the mounted Strip components of the {#each strips} block, by position
    stale,      \* listeners of destroyed Strip components (listen() is never undone)
    dead,       \* TRUE once a render threw and the build's scheduler stopped flushing
    nextId,     \* identity of the next object pushed by rust-updatestrip
    additions,  \* number of strips added so far (announced or by the + button)
    validRemovals, \* number of removals applied with an index within [0, count)
    effectEvents,  \* number of effect events handled so far
    clearLog,   \* the rust-clearstrips events handled so far: how many, and what the last one found
    emits,      \* the events the last step published with emit(), in order
    toEngine,   \* event bus, UI to engine: published events the engine has not taken
    toUI,       \* event bus, engine to UI: events not yet delivered to the listeners
    clicks,     \* the context-menu choices made so far, in order
    engineRack, \* the engine's rack: the chain of each of its strips, by position
    control,    \* one control of an effect shown by the Effect component
    shownAt,    \* the props `strip` and `index` of the Effect and of the gain dial
    raw,        \* the position the user last moved the control's range input to
    adjusted,   \* TRUE once the user has adjusted the control
    valueR,     \* gain dial: `valueR`, in thirds of a unit (3000 is the code's 1000)
    gainValue,  \* gain dial: `value`, in thousandths (24000 is the code's 24.0)
    listenMouse, \* gain dial: `listenMouse`
    mouseLastY, \* gain dial: `mouseLastY`
    configJSON, \* console.tsx: `let configJSON: any = {}`, by key (Undefined when absent)
    onChangeMap, \* console.tsx: `let onChangeMap`, the callback registered per key
    called,     \* the callbacks the last step invoked, with their arguments, in order
    returned,   \* what the last step's getConfigOr returned
    lastOp,     \* the last operation on the config store, with the value stored before it
    prevOp,     \* the operation on the config store before lastOp
    hostname,   \* audio settings: `hostname`, the host selected in the panel
    hostnames,  \* audio settings: `hostnames`, the options of the host <select>
    outputDevices, \* audio settings: `outputDevices`
    inputDevices,  \* audio settings: `inputDevices`
    backendHost,   \* the host the backend was last set to
    calls,      \* the backend calls in flight, each sent or done with its result
    nextCall,   \* the number of the next backend call
    selections, \* how many times the user has picked a host
    confirmExit,    \* Console: `confirmExit`
    commandHistory, \* Console: `commandHistory`, newest first
    commandHistoryIndex, \* Console: `commandHistoryIndex`
    commandCurrent, \* Console: `commandCurrent`
    inputValue, \* Console: the text in the <input>, `event.target.value`
    issued,     \* Console: the backend commands the last key invoked
    exits,      \* Console: the number of exit commands run so far
    lastKey     \* Console: the last key handled, with the text it found and the history index it read

rackVars == <<strips, comps, stale, dead, nextId, additions, validRemovals, effectEvents, clearLog>>
busVars == <<toEngine, toUI, clicks, engineRack>>
ctlVars == <<control, shownAt, raw, adjusted, valueR, gainValue, listenMouse, mouseLastY>>
cfgVars == <<configJSON, onChangeMap, called, returned, lastOp, prevOp>>
audVars == <<hostname, hostnames, outputDevices, inputDevices, backendHost, calls, nextCall,
             selections>>
conVars == <<confirmExit, commandHistory, commandHistoryIndex, commandCurrent, inputValue,
             issued, exits, lastKey>>
vars == <<rackVars, emits, busVars, ctlVars, cfgVars, audVars, conVars>>

----------------------------------------------------------------------------
(* Bounds and program constants *)

\* Array(10): the number of slots the Strip markup renders
N == 10

\* at most this many strips are ever added (announced or by the + button)
MaxAdds == 3

\* at most this many rust-clearstrips events are handled
MaxClears == 1

\* at most this many effect events (rust-seteffect, rust-removeeffect) are handled
MaxEffectEvents == 2

----------------------------------------------------------------------------
(* Values *)

Null == "null"
Undefined == "undefined"

\* EffectOptions of the context menu, as the names an effect payload carries
EffectNames == {"Delay", "BitCrusher"}

\* A JavaScript array: its length and the properties that have been assigned.
\* An index below length that is not in DOMAIN at is a hole.
ChainGet(c, i) == IF i \in DOMAIN c.at THEN c.at[i] ELSE Undefined

\* chain[i] = v: assigning at or beyond length grows the array; a negative
\* index becomes a plain property and leaves length alone.
ChainSet(c, i, v) ==
    [length |-> IF i >= c.length THEN i + 1 ELSE c.length,
     at     |-> [k \in (DOMAIN c.at) \cup {i} |-> IF k = i THEN v ELSE c.at[k]]]

\* the chain of N nulls the engine announces for a fresh strip
EmptyChain == [length |-> N, at |-> [k \in 0..(N - 1) |-> Null]]

\* the payloads of rust-updatestrip the model draws from
Payloads ==
    { [input |-> "mono0", chain |-> EmptyChain, output |-> "mono0"],
      [input |-> "sine", chain |-> ChainSet(EmptyChain, 0, "Delay"), output |-> "stereo01"] }

\* a strip pushed without the chain of the payload
NewStripNoChain(id, p) ==
    [id |-> id, isString |-> FALSE, input |-> p.input, chain |-> EmptyChain, output |-> p.output]

\* strips.push({ input, chain, output }): a fresh object
NewStrip(id, p) ==
    [id |-> id, isString |-> FALSE, input |-> p.input, chain |-> p.chain, output |-> p.output]

\* strips.push(""): the empty string, which has no input, chain or output
BlankStrip ==
    [id |-> 0, isString |-> TRUE, input |-> Undefined,
     chain |-> [length |-> 0, at |-> <<>>], output |-> Undefined]

\* a Strip component right after its script ran: the strip it closes over and
\* the fresh Input and Output children with their typeAsString = "None"
NewComp(id) == [strip |-> id, inType |-> "None", outType |-> "None"]

Min(a, b) == IF a < b THEN a ELSE b

----------------------------------------------------------------------------
(* Array.prototype.splice(index, 1) *)

SpliceStart(len, index) ==
    IF index < 0
    THEN (IF len + index < 0 THEN 0 ELSE len + index)
    ELSE (IF index > len THEN len ELSE index)

Splice1(s, index) ==
    LET start == SpliceStart(Len(s), index)
    IN  IF start < Len(s)
        THEN [k \in 1..(Len(s) - 1) |-> IF k <= start THEN s[k] ELSE s[k + 1]]
        ELSE s

----------------------------------------------------------------------------
(* Input and Output: the route selectors mounted per strip_index *)

\* the options of the two <select> elements
InputOptions == {"Mono", "Stereo", "Generator", "Bus"}
OutputOptions == {"None", "Mono", "Stereo", "Bus"}

\* Input's reactive block `$: { switch (type) ... }` as the sequence of events
\* it publishes for the type it sees: it runs when the component is created
\* (type None) and whenever type, left, right or index change.  left and
\* right are never moved by the model and keep their initial value 0.
InputEmit(type, index) ==
    CASE type = "None" ->
            <<[topic |-> "svelte-updatestrip", index |-> index, kind |-> "input-mono"]>>
      [] type = "Stereo" ->
            <<[topic |-> "svelte-updatestrip", index |-> index, kind |-> "input-stereo"]>>
      [] OTHER -> <<>>

----------------------------------------------------------------------------
(* The unkeyed {#each strips as strip, strip_index} block *)

\* One update of the each block for the new array ns: the block at each
\* position keeps its component and hands it the strip now at that position,
\* new positions get new components, and the blocks beyond the end are
\* destroyed, leaving their listeners registered.  Mounting a Strip for ""
\* runs its script and then throws on strip.chain[index], which ends the
\* update; so does re-rendering a mounted Strip that is handed "".
Reconcile(ns) ==
    LET n == Len(ns)
        m == Len(comps)
        bad == {k \in (m + 1)..n : ns[k].isString}
        upto == IF bad = {} THEN n ELSE (CHOOSE k \in bad : \A j \in bad : k <= j) - 1
        newLen == IF n < m THEN n ELSE upto
        destroyed == {[idx |-> k - 1, strip |-> comps[k].strip] : k \in (n + 1)..m}
        created == IF n < m THEN 0 ELSE (IF bad = {} THEN n - m ELSE upto + 1 - m)
    IN  [comps |-> [k \in 1..newLen |->
                      IF k <= m THEN [comps[k] EXCEPT !.strip = ns[k].id]
                                ELSE NewComp(ns[k].id)],
         stale |-> stale \cup {d \in destroyed : d.strip # 0},
         threw |-> bad # {} \/ \E k \in 1..Min(m, n) : ns[k].isString /\ comps[k].strip # 0,
         emits |-> [k \in 1..created |-> InputEmit("None", m + k - 1)[1]]]

\* `strips = strips`: the Rack is invalidated and, unless the scheduler is
\* dead, re-rendered.  Whether a render that throws leaves the scheduler able
\* to flush again depends on the build, so both outcomes are allowed.
Render(ns) ==
    IF dead
    THEN /\ emits' = <<>>
         /\ UNCHANGED <<comps, stale, dead>>
    ELSE LET r == Reconcile(ns)
         IN  /\ comps' = r.comps
             /\ stale' = r.stale
             /\ emits' = r.emits
             /\ dead' \in (IF r.threw THEN {TRUE, FALSE} ELSE {FALSE})

----------------------------------------------------------------------------
(* Rack: listeners and the Add Strip button *)

\* let updatestrip = listen("rust-updatestrip", ...)
updatestrip(p) ==
    /\ additions < MaxAdds
    /\ strips' = Append(strips, NewStrip(nextId, p))
    /\ nextId' = nextId + 1
    /\ additions' = additions + 1
    /\ Render(strips')
    /\ UNCHANGED <<validRemovals, effectEvents, clearLog>>

\* let removestrip = listen("rust-removestrip", ...)
removestrip(index) ==
    /\ strips' = Splice1(strips, index)
    /\ validRemovals' = IF index \in 0..(Len(strips) - 1)
                        THEN validRemovals + 1 ELSE validRemovals
    /\ Render(strips')
    /\ UNCHANGED <<nextId, additions, effectEvents, clearLog>>

\* a clearstrips listener that only invalidates: `strips = strips` without `strips = []`
clearstripsNoReset ==
    /\ clearLog.count < MaxClears
    /\ strips' = strips
    /\ clearLog' = [count |-> clearLog.count + 1, held |-> Len(strips)]
    /\ Render(strips')
    /\ UNCHANGED <<nextId, additions, validRemovals, effectEvents>>

\* let clearstrips = listen("rust-clearstrips", ...)
clearstrips ==
    /\ clearLog.count < MaxClears
    /\ strips' = <<>>
    /\ clearLog' = [count |-> clearLog.count + 1, held |-> Len(strips)]
    /\ Render(strips')
    /\ UNCHANGED <<nextId, additions, validRemovals, effectEvents>>

\* the + button's on:click
addStrip ==
    /\ additions < MaxAdds
    /\ strips' = Append(strips, BlankStrip)
    /\ additions' = additions + 1
    /\ Render(strips')
    /\ UNCHANGED <<nextId, validRemovals, effectEvents, clearLog>>

----------------------------------------------------------------------------
(* Strip: the rust-seteffect and rust-removeeffect listeners *)

\* every registered listener: those of the mounted components and those of
\* the destroyed ones
Listeners ==
    {[idx |-> k - 1, strip |-> comps[k].strip] : k \in 1..Len(comps)} \cup stale

\* the strips after every object in `targets` had chain[index] = v applied
\* (a listener whose strip is "" throws a TypeError and changes nothing)
ApplyToChains(targets, index, v) ==
    [k \in 1..Len(strips) |->
        IF ~strips[k].isString /\ strips[k].id \in targets
        THEN [strips[k] EXCEPT !.chain = ChainSet(@, index, v)]
        ELSE strips[k]]

\* listener of rust-seteffect, run in every Strip that registered it
SetEffectTargets(pstrip) == {l.strip : l \in {x \in Listeners : x.idx = pstrip}}

seteffect(pstrip, index, effect) ==
    /\ effectEvents < MaxEffectEvents
    /\ effectEvents' = effectEvents + 1
    /\ strips' = ApplyToChains(SetEffectTargets(pstrip), index, effect)
    /\ emits' = <<>>
    /\ UNCHANGED <<comps, stale, dead, nextId, additions, validRemovals, clearLog>>

\* listener of rust-removeeffect, run in every Strip that registered it
RemoveEffectTargets(pstrip) == {l.strip : l \in Listeners}

removeeffect(pstrip, index) ==
    /\ effectEvents < MaxEffectEvents
    /\ effectEvents' = effectEvents + 1
    /\ strips' = ApplyToChains(RemoveEffectTargets(pstrip), index, Null)
    /\ emits' = <<>>
    /\ UNCHANGED <<comps, stale, dead, nextId, additions, validRemovals, clearLog>>


----------------------------------------------------------------------------
(* Input / Output: the user picks an option of the type <select> *)

\* bind:value={typeAsString}, `$: type = typeFromString(typeAsString)` and
\* the reactive block that follows it
SelectInput(pos, option) ==
    /\ ~dead
    /\ pos + 1 <= Len(comps)
    /\ comps[pos + 1].inType # option
    /\ comps' = [comps EXCEPT ![pos + 1].inType = option]
    /\ emits' = InputEmit(option, pos)
    /\ UNCHANGED <<strips, stale, dead, nextId, additions, validRemovals, effectEvents, clearLog>>
    /\ UNCHANGED <<busVars, ctlVars, cfgVars, audVars, conVars>>

\* Output has no reactive block besides `$: type = typeFromString(typeAsString)`
SelectOutput(pos, option) ==
    /\ ~dead
    /\ pos + 1 <= Len(comps)
    /\ comps[pos + 1].outType # option
    /\ comps' = [comps EXCEPT ![pos + 1].outType = option]
    /\ emits' = <<>>
    /\ UNCHANGED <<strips, stale, dead, nextId, additions, validRemovals, effectEvents, clearLog>>
    /\ UNCHANGED <<busVars, ctlVars, cfgVars, audVars, conVars>>

----------------------------------------------------------------------------
(* Effect: contextMenuCallback *)

\* emit(): what a step publishes goes onto the bus
Publish == toEngine' = toEngine \o emits'

\* the strip a mounted Strip component closes over, as it is in the Rack
\* (position 0 of the result when it is not there)
HeldBy(pos) ==
    {k \in 1..Len(strips) : ~strips[k].isString /\ strips[k].id = comps[pos + 1].strip}

\* an Effect component exists for every slot of a Strip that rendered
EffectMounted(pos, index) ==
    /\ pos + 1 <= Len(comps)
    /\ comps[pos + 1].strip # 0
    /\ index \in 0..(N - 1)

\* the Remove option is offered by the button of a slot that is not empty
ShownEmpty(pos, index) ==
    \A k \in HeldBy(pos) : ChainGet(strips[k].chain, index) \in {Null, Undefined}

\* case EffectOptions.Delay / EffectOptions.BitCrusher
ClickSetEffect(pos, index, option) ==
    /\ EffectMounted(pos, index)
    /\ Len(clicks) < MaxEffectEvents
    /\ clicks' = Append(clicks, [op |-> "set", strip |-> pos, index |-> index, option |-> option])
    /\ emits' = <<[topic |-> "svelte-seteffect", option |-> option, strip |-> pos, index |-> index]>>
    /\ Publish
    /\ UNCHANGED <<rackVars, toUI, engineRack, ctlVars, cfgVars, audVars, conVars>>

\* case EffectOptions.Remove
ClickRemoveEffect(pos, index) ==
    /\ EffectMounted(pos, index)
    /\ ~ShownEmpty(pos, index)
    /\ Len(clicks) < MaxEffectEvents
    /\ clicks' = Append(clicks, [op |-> "remove", strip |-> pos, index |-> index, option |-> "Remove"])
    /\ emits' = <<[topic |-> "svelte-removeeffect", strip |-> pos, index |-> index]>>
    /\ Publish
    /\ UNCHANGED <<rackVars, toUI, engineRack, ctlVars, cfgVars, audVars, conVars>>

----------------------------------------------------------------------------
(* The event bus and the engine *)

\* Messages of one topic are delivered in the order they were sent; messages
\* of different topics in any order.
Deliverable(q) == {k \in 1..Len(q) : \A j \in 1..(k - 1) : q[j].topic # q[k].topic}

Without(q, k) == [j \in 1..(Len(q) - 1) |-> IF j < k THEN q[j] ELSE q[j + 1]]

\* The engine's answer to one event of the UI: it confirms a set-effect with
\* an effect-set event carrying the chosen effect, a remove-effect with an
\* effect-removed event, and answers nothing to update-strip.
EngineReply(ev) ==
    CASE ev.topic = "svelte-seteffect" ->
            <<[topic |-> "rust-seteffect", strip |-> ev.strip, index |-> ev.index,
               effect |-> ev.option]>>
      [] ev.topic = "svelte-removeeffect" ->
            <<[topic |-> "rust-removeeffect", strip |-> ev.strip, index |-> ev.index]>>
      [] OTHER -> <<>>

\* The engine applies an event of the UI to its own rack: a set-effect or
\* remove-effect that addresses one of its strips and a slot in [0, N) writes
\* the slot, anything else is discarded.
EngineApply(rack, ev) ==
    IF /\ ev.topic \in {"svelte-seteffect", "svelte-removeeffect"}
       /\ ev.strip \in 0..(Len(rack) - 1)
       /\ ev.index \in 0..(N - 1)
    THEN [rack EXCEPT ![ev.strip + 1][ev.index] =
             IF ev.topic = "svelte-seteffect" THEN ev.option ELSE Null]
    ELSE rack

EngineStep ==
    /\ \E k \in Deliverable(toEngine) :
          /\ toEngine' = Without(toEngine, k)
          /\ toUI' = toUI \o EngineReply(toEngine[k])
          /\ engineRack' = EngineApply(engineRack, toEngine[k])
    /\ emits' = <<>>
    /\ UNCHANGED <<rackVars, clicks, ctlVars, cfgVars, audVars, conVars>>

\* an event of the engine reaches the listeners registered for its topic
Deliver ==
    /\ \E k \in Deliverable(toUI) :
          /\ toUI' = Without(toUI, k)
          /\ IF toUI[k].topic = "rust-seteffect"
             THEN seteffect(toUI[k].strip, toUI[k].index, toUI[k].effect)
             ELSE removeeffect(toUI[k].strip, toUI[k].index)
    /\ UNCHANGED <<toEngine, clicks, engineRack, ctlVars, cfgVars, audVars, conVars>>

----------------------------------------------------------------------------
(* Effect: the controls of an effect *)

\* the raw positions the user may try to move a range input to: -MaxRaw..MaxRaw
MaxRaw == 6

\* the toggle button is clicked while its value is below this
MaxToggleValue == 4

\* the strips and slots an Effect or a gain dial may be mounted for
ShownAts == {[strip |-> 0, index |-> 0], [strip |-> 1, index |-> N - 1]}

\* controls as the engine describes them in an effect's `controls`
ControlDefs ==
    { [kind |-> "dial", name |-> "bits", min |-> 0, max |-> 4, n_states |-> 0, value |-> 2],
      [kind |-> "slider", name |-> "mix", min |-> -2, max |-> 3, n_states |-> 0, value |-> 0],
      [kind |-> "toggle", name |-> "sync", min |-> 0, max |-> 0, n_states |-> 2, value |-> 0],
      [kind |-> "toggle", name |-> "mode", min |-> 0, max |-> 0, n_states |-> 3, value |-> 0] }

\* <input type="range" min={control.min} max={control.max}>: the value the
\* element holds after the user tried to move it to x (step 1)
RangeUnclamped(min, max, x) == x

RangeSanitize(min, max, x) ==
    IF max < min THEN min
    ELSE IF x < min THEN min
    ELSE IF x > max THEN max
    ELSE x

ControlEmit(c) ==
    <<[topic |-> "svelte-updatestrip", kind |-> "control", control |-> c.kind,
       strip |-> shownAt.strip, index |-> shownAt.index,
       name |-> c.name, value |-> c.value]>>

\* dial and slider: bind:value={control.value} and on:input
RangeInput(x) ==
    /\ control.kind \in {"dial", "slider"}
    /\ control' = [control EXCEPT !.value = RangeSanitize(control.min, control.max, x)]
    /\ raw' = x
    /\ adjusted' = TRUE
    /\ emits' = ControlEmit(control')
    /\ UNCHANGED <<shownAt, valueR, gainValue, listenMouse, mouseLastY>>
    /\ UNCHANGED <<rackVars, busVars, cfgVars, audVars, conVars>>

\* toggle: control.value = control.value + (1 % control.n_states); the
\* button's on:change handler never runs, a button fires no change event
ToggleNext(value, n_states) == value + (1 % n_states)

ToggleClick ==
    /\ control.kind = "toggle"
    /\ control.value < MaxToggleValue
    /\ control' = [control EXCEPT !.value = ToggleNext(control.value, control.n_states)]
    /\ adjusted' = TRUE
    /\ emits' = <<>>
    /\ UNCHANGED <<shownAt, raw, valueR, gainValue, listenMouse, mouseLastY>>
    /\ UNCHANGED <<rackVars, busVars, cfgVars, audVars, conVars>>

----------------------------------------------------------------------------
(* The gain dial *)

\* `let min = -12.0`, `let max = 24.0`, in thousandths
GainMin == -12000
GainMax == 24000

\* `valueR > 1000`, in thirds
RadiusMax == 1000 * 3

\* `let multiplier = 5`
Multiplier == 5

\* (value / 1000) * (max - min) + min
RadiusToValue(r) == (r * (GainMax - GainMin)) \div RadiusMax + GainMin

\* ((value - min) / (max - min)) * 1000
ValueToRadius(v) == ((v - GainMin) * RadiusMax) \div (GainMax - GainMin)

\* the two `if` after `valueR -= diff * multiplier`
ClampRadius(r) ==
    LET a == IF r > RadiusMax THEN RadiusMax ELSE r
    IN  IF a < 0 THEN 0 ELSE a

GainEmit(v) ==
    <<[topic |-> "svelte-seteffectvalue", strip |-> shownAt.strip, index |-> shownAt.index,
       value_name |-> "gain", value_kind |-> "float", value |-> v]>>

\* the pointer positions (clientY) the model draws from
MouseYs == {0, 10, 50, 120, 300}

MouseDown(y) ==
    /\ mouseLastY' = y
    /\ listenMouse' = TRUE
    /\ emits' = <<>>
    /\ UNCHANGED <<control, shownAt, raw, adjusted, valueR, gainValue>>
    /\ UNCHANGED <<rackVars, busVars, cfgVars, audVars, conVars>>

\* on:mousemove, then the reactive block `$: { value = radiusToValue(valueR); emit(...) }`
\* which runs when an assignment changed valueR
MouseMove(y) ==
    /\ listenMouse
    /\ LET diff == y - mouseLastY
       IN  /\ valueR' = ClampRadius(valueR - diff * Multiplier * 3)
           /\ gainValue' = RadiusToValue(valueR')
           /\ emits' = IF diff # 0 THEN GainEmit(gainValue') ELSE <<>>
    /\ mouseLastY' = y
    /\ UNCHANGED <<control, shownAt, raw, adjusted, listenMouse>>
    /\ UNCHANGED <<rackVars, busVars, cfgVars, audVars, conVars>>

\* <svelte:window on:mouseup>
MouseUp ==
    /\ listenMouse' = FALSE
    /\ emits' = <<>>
    /\ UNCHANGED <<control, shownAt, raw, adjusted, valueR, gainValue, mouseLastY>>
    /\ UNCHANGED <<rackVars, busVars, cfgVars, audVars, conVars>>

----------------------------------------------------------------------------
(* console.tsx: the config store *)

\* the keys, the values and the callbacks the model draws from; a value is
\* written with its JavaScript type: the number 1, the string "1", the number 2
CfgKeys == {"host", "rate"}
CfgValues == {"number:1", "string:1", "number:2"}
Callbacks == {"f", "g"}
NoCallback == "none"

TypeOf(v) ==
    CASE v = Undefined -> "undefined"
      [] v = Null -> "null"
      [] v \in {"number:1", "number:2"} -> "number"
      [] OTHER -> "string"

\* ToNumber of a number or of a numeric string
ToNumber(v) == IF v \in {"number:1", "string:1"} THEN 1 ELSE 2

\* JavaScript's `a == b`: null and undefined equal each other and nothing
\* else; a number and a string are compared as numbers
LooseEq(a, b) ==
    IF TypeOf(a) = TypeOf(b) THEN a = b
    ELSE IF TypeOf(a) \in {"undefined", "null"} /\ TypeOf(b) \in {"undefined", "null"} THEN TRUE
    ELSE IF TypeOf(a) \in {"undefined", "null"} \/ TypeOf(b) \in {"undefined", "null"} THEN FALSE
    ELSE ToNumber(a) = ToNumber(b)

\* the body of setConfig as what it invokes and what it publishes
SetConfigCalls(key, value) ==
    IF LooseEq(value, configJSON[key]) \/ onChangeMap[key] = NoCallback
    THEN <<>>
    ELSE <<[fn |-> onChangeMap[key], key |-> key, value |-> value]>>

SetConfigEmits(key, value) ==
    IF LooseEq(value, configJSON[key])
    THEN <<>>
    ELSE <<[topic |-> "react-state-update", key |-> key, value |-> value]>>

Op(op, key, value) == [op |-> op, key |-> key, value |-> value, before |-> configJSON[key]]

\* function setConfig(key, value)
setConfig(key, value) ==
    /\ called' = SetConfigCalls(key, value)
    /\ emits' = SetConfigEmits(key, value)
    /\ returned' = Undefined
    /\ lastOp' = Op("set", key, value)
    /\ prevOp' = lastOp
    /\ UNCHANGED <<configJSON, onChangeMap>>
    /\ UNCHANGED <<rackVars, busVars, ctlVars, audVars, conVars>>

\* function getConfigOr(key, defaultValue)
getConfigOr(key, defaultValue) ==
    /\ IF LooseEq(configJSON[key], Undefined)
       THEN /\ returned' = defaultValue
            /\ called' = SetConfigCalls(key, defaultValue)
            /\ emits' = SetConfigEmits(key, defaultValue)
       ELSE /\ returned' = configJSON[key]
            /\ called' = <<>>
            /\ emits' = <<>>
    /\ lastOp' = Op("get", key, defaultValue)
    /\ prevOp' = lastOp
    /\ UNCHANGED <<configJSON, onChangeMap>>
    /\ UNCHANGED <<rackVars, busVars, ctlVars, audVars, conVars>>

\* function onChange(key, onChange)
onChange(key, fn) ==
    /\ onChangeMap' = [onChangeMap EXCEPT ![key] = fn]
    /\ called' = <<>>
    /\ emits' = <<>>
    /\ returned' = Undefined
    /\ lastOp' = Op("onChange", key, fn)
    /\ prevOp' = lastOp
    /\ UNCHANGED configJSON
    /\ UNCHANGED <<rackVars, busVars, ctlVars, audVars, conVars>>

\* the listener of "rust-state-update" registered by stateEventLoop
stateEventLoop(key, value) ==
    /\ configJSON' = [configJSON EXCEPT ![key] = value]
    /\ called' = <<>>
    /\ emits' = <<>>
    /\ returned' = Undefined
    /\ lastOp' = Op("update", key, value)
    /\ prevOp' = lastOp
    /\ UNCHANGED onChangeMap
    /\ UNCHANGED <<rackVars, busVars, ctlVars, audVars, conVars>>

----------------------------------------------------------------------------
(* The audio settings panel: hosts and their device lists *)

\* the user picks a host at most this many times
MaxSelects == 2

\* what the backend answers: its hosts and the devices of each
Hosts == <<"ALSA", "JACK">>

OutputDevicesOf(h) ==
    CASE h = "ALSA" -> <<"hw:0,0">>
      [] h = "JACK" -> <<"system:playback_1", "system:playback_2">>
      [] OTHER -> <<>>

InputDevicesOf(h) ==
    CASE h = "ALSA" -> <<"hw:0,1">>
      [] h = "JACK" -> <<"system:capture_1">>
      [] OTHER -> <<>>

IsHost(name) == \E k \in 1..Len(Hosts) : Hosts[k] = name

\* invoke(cmd, { name }): a call on its way to the backend
Call(id, cmd, name) == [id |-> id, cmd |-> cmd, name |-> name, done |-> FALSE, result |-> <<>>]

\* the backend's answer to a call, given the host it is set to
BackendResult(c) ==
    CASE c.cmd = "list_hosts" -> Hosts
      [] c.cmd = "set_host" -> IF IsHost(c.name) THEN <<"ok">> ELSE <<"error">>
      [] c.cmd = "list_output_devices" -> OutputDevicesOf(backendHost)
      [] c.cmd = "list_input_devices" -> InputDevicesOf(backendHost)

\* The backend runs the calls in the order they were sent; set_host with the
\* name of a host changes the host, with any other name it fails.
BackendRun ==
    /\ \E c \in calls :
          /\ ~c.done
          /\ \A o \in calls : ~o.done => c.id <= o.id
          /\ backendHost' = IF c.cmd = "set_host" /\ IsHost(c.name) THEN c.name ELSE backendHost
          /\ calls' = (calls \ {c}) \cup {[c EXCEPT !.done = TRUE, !.result = BackendResult(c)]}
    /\ UNCHANGED <<hostname, hostnames, outputDevices, inputDevices, nextCall, selections>>
    /\ UNCHANGED <<rackVars, emits, busVars, ctlVars, cfgVars, conVars>>

\* function updateHost(hostname): the invoke of set_host
updateHost(name) == {Call(nextCall, "set_host", name)}

\* the .then() of set_host: the two list calls
updateHostThen ==
    {Call(nextCall, "list_output_devices", ""), Call(nextCall + 1, "list_input_devices", "")}

\* the response of a finished call reaches its .then(); finished calls
\* complete in any order; a rejected set_host has no handler
Resolve ==
    /\ \E c \in calls :
          /\ c.done
          /\ CASE c.cmd = "list_hosts" ->
                    /\ hostnames' = c.result
                    /\ hostname' = c.result[1]
                    /\ calls' = (calls \ {c}) \cup
                                  (IF hostname' # hostname THEN updateHost(hostname') ELSE {})
                    /\ nextCall' = IF hostname' # hostname THEN nextCall + 1 ELSE nextCall
                    /\ UNCHANGED <<outputDevices, inputDevices>>
               [] c.cmd = "set_host" ->
                    /\ calls' = (calls \ {c}) \cup
                                  (IF c.result = <<"ok">> THEN updateHostThen ELSE {})
                    /\ nextCall' = IF c.result = <<"ok">> THEN nextCall + 2 ELSE nextCall
                    /\ UNCHANGED <<hostname, hostnames, outputDevices, inputDevices>>
               [] c.cmd = "list_output_devices" ->
                    /\ outputDevices' = c.result
                    /\ calls' = calls \ {c}
                    /\ UNCHANGED <<hostname, hostnames, inputDevices, nextCall>>
               [] c.cmd = "list_input_devices" ->
                    /\ inputDevices' = c.result
                    /\ calls' = calls \ {c}
                    /\ UNCHANGED <<hostname, hostnames, outputDevices, nextCall>>
    /\ UNCHANGED <<backendHost, selections>>
    /\ UNCHANGED <<rackVars, emits, busVars, ctlVars, cfgVars, conVars>>

\* <select bind:value={hostname}> and `$: updateHost(hostname)`
SelectHost(h) ==
    /\ selections < MaxSelects
    /\ \E k \in 1..Len(hostnames) : hostnames[k] = h
    /\ h # hostname
    /\ hostname' = h
    /\ calls' = calls \cup updateHost(h)
    /\ nextCall' = nextCall + 1
    /\ selections' = selections + 1
    /\ UNCHANGED <<hostnames, outputDevices, inputDevices, backendHost>>
    /\ UNCHANGED <<rackVars, emits, busVars, ctlVars, cfgVars, conVars>>

----------------------------------------------------------------------------
(* Console: the exit command and the command history *)

\* at most this many commands are run
MaxHistory == 3

\* The texts the user types.  A typographic quote is written { or }, the
\* straight quote '.
Texts == {"", "exit", "reave", "say {hi}"}

\* executeCommand.replaceAll of the two typographic quotes
Normalize(text) == IF text = "say {hi}" THEN "say 'hi'" ELSE text

\* executeCommand.split(" ")[0]
CommandOf(text) == IF text \in {"say {hi}", "say 'hi'"} THEN "say" ELSE text

\* case "exit" with the branches the other way round
ExitCallsInverted(confirm) == IF confirm THEN <<"exit">> ELSE <<"confirm_exit">>

\* case "exit": the backend command it invokes
ExitCalls(confirm) == IF confirm THEN <<"confirm_exit">> ELSE <<"exit">>

\* the backend commands the switch invokes for a command of the model
CommandCalls(command) == IF command = "exit" THEN ExitCalls(confirmExit) ELSE <<>>

\* commandHistory[i] as JavaScript reads it
HistoryGet(i) ==
    IF i \in 0..(Len(commandHistory) - 1) THEN commandHistory[i + 1] ELSE Undefined

\* event.key === "Enter": outputMessage, runCommand, clear the input
KeyEnter ==
    /\ Len(commandHistory) < MaxHistory
    /\ LET executeCommand == Normalize(inputValue)
           command == CommandOf(executeCommand)
       IN  /\ commandHistory' = <<executeCommand>> \o commandHistory
           /\ commandHistoryIndex' = -1
           /\ commandCurrent' = ""
           /\ issued' = CommandCalls(command)
           /\ confirmExit' = (confirmExit \/ command = "exit")
           /\ exits' = IF command = "exit" THEN exits + 1 ELSE exits
    /\ inputValue' = ""
    /\ lastKey' = [key |-> "Enter", text |-> inputValue, read |-> {}]
    /\ UNCHANGED <<rackVars, emits, busVars, ctlVars, cfgVars, audVars>>

\* `commandHistoryIndex < commandHistory.length` instead of `... - 1`
CanGoUpOffByOne == commandHistoryIndex < Len(commandHistory)

\* if (commandHistoryIndex < commandHistory.length - 1)
CanGoUp == commandHistoryIndex < Len(commandHistory) - 1

\* event.key === "ArrowUp"
KeyArrowUp ==
    /\ IF CanGoUp
       THEN /\ commandCurrent' = IF commandHistoryIndex = -1 THEN inputValue ELSE commandCurrent
            /\ commandHistoryIndex' = commandHistoryIndex + 1
            /\ inputValue' = HistoryGet(commandHistoryIndex + 1)
            /\ lastKey' = [key |-> "ArrowUp", text |-> inputValue,
                           read |-> {commandHistoryIndex + 1}]
       ELSE /\ lastKey' = [key |-> "ArrowUp", text |-> inputValue, read |-> {}]
            /\ UNCHANGED <<commandCurrent, commandHistoryIndex, inputValue>>
    /\ issued' = <<>>
    /\ UNCHANGED <<confirmExit, commandHistory, exits>>
    /\ UNCHANGED <<rackVars, emits, busVars, ctlVars, cfgVars, audVars>>

\* event.key === "ArrowDown"
KeyArrowDown ==
    /\ IF commandHistoryIndex > 0
       THEN /\ commandHistoryIndex' = commandHistoryIndex - 1
            /\ inputValue' = HistoryGet(commandHistoryIndex - 1)
            /\ lastKey' = [key |-> "ArrowDown", text |-> inputValue,
                           read |-> {commandHistoryIndex - 1}]
       ELSE /\ inputValue' = commandCurrent
            /\ lastKey' = [key |-> "ArrowDown", text |-> inputValue, read |-> {}]
            /\ UNCHANGED commandHistoryIndex
    /\ issued' = <<>>
    /\ UNCHANGED <<confirmExit, commandHistory, commandCurrent, exits>>
    /\ UNCHANGED <<rackVars, emits, busVars, ctlVars, cfgVars, audVars>>

\* the user edits the text of the <input>; any other key reaches no branch
\* of handleInput
TypeText(t) ==
    /\ t # inputValue
    /\ inputValue' = t
    /\ issued' = <<>>
    /\ lastKey' = [key |-> "text", text |-> inputValue, read |-> {}]
    /\ UNCHANGED <<confirmExit, commandHistory, commandHistoryIndex, commandCurrent, exits>>
    /\ UNCHANGED <<rackVars, emits, busVars, ctlVars, cfgVars, audVars>>

----------------------------------------------------------------------------
(* Inputs of the events, and the specifications *)

StripIdx == 0..MaxAdds
RemoveIdx == (0 - MaxAdds - 1)..MaxAdds
SlotIdx == {-1, 0, N - 1, N}

InitRack ==
    /\ strips = <<>>
    /\ comps = <<>>
    /\ stale = {}
    /\ dead = FALSE
    /\ nextId = 1
    /\ additions = 0
    /\ validRemovals = 0
    /\ effectEvents = 0
    /\ clearLog = [count |-> 0, held |-> 0]
    /\ emits = <<>>
    /\ toEngine = <<>>
    /\ toUI = <<>>
    /\ clicks = <<>>
    /\ engineRack = <<>>

NoOp == [op |-> "none", key |-> "host", value |-> Undefined, before |-> Undefined]

InitCfg ==
    /\ configJSON = [k \in CfgKeys |-> Undefined]
    /\ onChangeMap = [k \in CfgKeys |-> NoCallback]
    /\ called = <<>>
    /\ returned = Undefined
    /\ lastOp = NoOp
    /\ prevOp = NoOp

\* the panel right after its script ran: list_hosts was invoked, and the
\* reactive `$: updateHost(hostname)` ran once with the empty hostname
InitAudio ==
    /\ hostname = ""
    /\ hostnames = <<>>
    /\ outputDevices = <<>>
    /\ inputDevices = <<>>
    /\ backendHost = ""
    /\ calls = {Call(1, "list_hosts", ""), Call(2, "set_host", "")}
    /\ nextCall = 3
    /\ selections = 0

InitConsole ==
    /\ confirmExit = FALSE
    /\ commandHistory = <<>>
    /\ commandHistoryIndex = -1
    /\ commandCurrent = ""
    /\ inputValue = ""
    /\ issued = <<>>
    /\ exits = 0
    /\ lastKey = [key |-> "none", text |-> "", read |-> {}]

InitDial ==
    /\ raw = 0
    /\ adjusted = FALSE
    /\ valueR = ValueToRadius(0)
    /\ gainValue = RadiusToValue(valueR)
    /\ listenMouse = FALSE
    /\ mouseLastY = 0

Init ==
    /\ InitRack
    /\ InitDial
    /\ InitCfg
    /\ InitAudio
    /\ InitConsole
    /\ control = CHOOSE c \in ControlDefs : c.kind = "dial"
    /\ shownAt = [strip |-> 0, index |-> 0]

InitCtl ==
    /\ InitRack
    /\ InitDial
    /\ InitCfg
    /\ InitAudio
    /\ InitConsole
    /\ control \in ControlDefs
    /\ shownAt \in ShownAts

\* the events of the engine as they reach the Rack and its Strips
RustUpdateStrip(p) == updatestrip(p) /\ UNCHANGED <<busVars, ctlVars, cfgVars, audVars, conVars>>
RustRemoveStrip(index) == removestrip(index) /\ UNCHANGED <<busVars, ctlVars, cfgVars, audVars, conVars>>
RustClearStrips == clearstrips /\ UNCHANGED <<busVars, ctlVars, cfgVars, audVars, conVars>>
AddStripClick == addStrip /\ UNCHANGED <<busVars, ctlVars, cfgVars, audVars, conVars>>
RustSetEffect(s, i, e) == seteffect(s, i, e) /\ UNCHANGED <<busVars, ctlVars, cfgVars, audVars, conVars>>
RustRemoveEffect(s, i) == removeeffect(s, i) /\ UNCHANGED <<busVars, ctlVars, cfgVars, audVars, conVars>>

\* the Rack and its strips under the events of the engine and the + button
Next ==
    \/ \E p \in Payloads : RustUpdateStrip(p)
    \/ \E i \in RemoveIdx : RustRemoveStrip(i)
    \/ RustClearStrips
    \/ AddStripClick
    \/ \E s \in StripIdx, i \in SlotIdx, e \in EffectNames : RustSetEffect(s, i, e)
    \/ \E s \in StripIdx, i \in SlotIdx : RustRemoveEffect(s, i)

Spec == Init /\ [][Next]_vars

\* Rack.svelte alone: its three listeners and the + button
NextStrips ==
    \/ \E p \in Payloads : RustUpdateStrip(p)
    \/ \E i \in RemoveIdx : RustRemoveStrip(i)
    \/ RustClearStrips
    \/ AddStripClick

SpecStrips == Init /\ [][NextStrips]_vars

\* additions and removals of strips, and the user's choice of routes
NextRack ==
    \/ \E p \in Payloads : RustUpdateStrip(p)
    \/ \E i \in RemoveIdx : RustRemoveStrip(i)
    \/ AddStripClick
    \/ \E s \in StripIdx, o \in InputOptions : SelectInput(s, o)
    \/ \E s \in StripIdx, o \in OutputOptions : SelectOutput(s, o)

SpecRack == Init /\ [][NextRack]_vars

\* a strip announced while the bus is watched: what its Input publishes is sent
Announce(p) ==
    /\ updatestrip(p)
    /\ engineRack' = Append(engineRack, [i \in 0..(N - 1) |-> ChainGet(p.chain, i)])
    /\ Publish
    /\ UNCHANGED <<toUI, clicks, ctlVars, cfgVars, audVars, conVars>>

\* the + button clicked while the bus is watched
ClickAddStrip == addStrip /\ Publish /\ UNCHANGED <<toUI, clicks, engineRack, ctlVars, cfgVars, audVars, conVars>>

\* the user's context-menu choices, the engine answering them, and the bus
NextSync ==
    \/ \E p \in Payloads : Announce(p)
    \/ \E s \in StripIdx, i \in SlotIdx, o \in EffectNames : ClickSetEffect(s, i, o)
    \/ \E s \in StripIdx, i \in SlotIdx : ClickRemoveEffect(s, i)
    \/ EngineStep
    \/ Deliver

SpecSync == Init /\ [][NextSync]_vars

\* the same with the + button: every way the user and the engine change a rack
NextConverge ==
    \/ \E p \in Payloads : Announce(p)
    \/ ClickAddStrip
    \/ \E s \in StripIdx, i \in SlotIdx, o \in EffectNames : ClickSetEffect(s, i, o)
    \/ \E s \in StripIdx, i \in SlotIdx : ClickRemoveEffect(s, i)
    \/ EngineStep
    \/ Deliver

SpecConverge == Init /\ [][NextConverge]_vars

\* the controls of an effect and the gain dial under the user's hands
NextCtl ==
    \/ \E x \in (0 - MaxRaw)..MaxRaw : RangeInput(x)
    \/ ToggleClick
    \/ \E y \in MouseYs : MouseDown(y)
    \/ \E y \in MouseYs : MouseMove(y)
    \/ MouseUp

SpecCtl == InitCtl /\ [][NextCtl]_vars

\* the config store under its callers and the engine's config updates
NextCfg ==
    \/ \E k \in CfgKeys, v \in CfgValues : setConfig(k, v)
    \/ \E k \in CfgKeys, d \in CfgValues : getConfigOr(k, d)
    \/ \E k \in CfgKeys, fn \in Callbacks : onChange(k, fn)
    \/ \E k \in CfgKeys, v \in CfgValues : stateEventLoop(k, v)

SpecCfg == Init /\ [][NextCfg]_vars

\* the audio settings panel, the user picking hosts, and the backend
NextAudio ==
    \/ \E h \in {Hosts[k] : k \in 1..Len(Hosts)} : SelectHost(h)
    \/ BackendRun
    \/ Resolve

SpecAudio == Init /\ [][NextAudio]_vars

\* the console's input under the user's keys
NextConsole ==
    \/ \E t \in Texts : TypeText(t)
    \/ KeyEnter
    \/ KeyArrowUp
    \/ KeyArrowDown

SpecConsole == Init /\ [][NextConsole]_vars

----------------------------------------------------------------------------
(* The claims *)

\* a chain as an array: its length and what each index below it reads as
Elems(c) == [length |-> c.length, elems |-> [i \in 0..(c.length - 1) |-> ChainGet(c, i)]]

\* the chain of every strip in the Rack, by position
Chains == [k \in 1..Len(strips) |-> Elems(strips[k].chain)]

\* the positions (0-based) of the strips in the Rack
Tracked == 0..(Len(strips) - 1)

\* the slot indices of a chain
Slots == 0..(N - 1)

\* C1: an effect-set event whose strip field is the index of no strip in the
\* Rack is discarded: handling it leaves the chain of every strip as it was.
C1_UntrackedSetEffectDiscarded ==
    [][\A s \in StripIdx, i \in SlotIdx, e \in EffectNames :
          (RustSetEffect(s, i, e) /\ s \notin Tracked) => Chains' = Chains]_vars

\* C2: an effect-removed event {strip: s, index: i} clears slot i of strip s
\* only: the chains at every other position stay as they were, and when s is
\* the index of no strip in the Rack no chain changes at all.
C2_RemoveEffectClearsAddressedStripOnly ==
    [][\A s \in StripIdx, i \in SlotIdx \cap Slots :
          RustRemoveEffect(s, i) =>
             /\ \A k \in 1..Len(strips) : k # s + 1 => Chains'[k] = Chains[k]
             /\ s \notin Tracked => Chains' = Chains]_vars

\* C3: the number of strips in the Rack is the number of additions minus the
\* number of removals whose index was within [0, count) when applied, and the
\* strips occupy the positions 0..count-1.
C3_CountIsAdditionsMinusValidRemovals ==
    /\ Len(strips) = additions - validRemovals
    /\ DOMAIN strips = 1..Len(strips)

\* C4: a strip-removed event whose index is outside [0, count) is ignored:
\* the Rack holds the same strips in the same order afterwards.
C4_OutOfBoundsRemovalIgnored ==
    [][\A i \in RemoveIdx :
          (RustRemoveStrip(i) /\ i \notin Tracked) => strips' = strips]_vars

\* what the console shows for the strip at a position: the strip with its
\* chain, and the routes chosen in the Input and Output mounted there
Shown(pos) ==
    [strip |-> strips[pos + 1],
     inType |-> comps[pos + 1].inType,
     outType |-> comps[pos + 1].outType]

\* every strip of the Rack was announced and has its Strip component mounted
AllMounted ==
    /\ ~dead
    /\ Len(comps) = Len(strips)
    /\ \A k \in 1..Len(strips) : ~strips[k].isString /\ comps[k].strip = strips[k].id

\* C5: a strip-removed event with index i in [0, count) removes exactly the
\* strip at position i: the strips below i keep position and content, and
\* every strip at a position j > i moves to j - 1 with its input route, its
\* chain and its output route unchanged.
C5_RemovalShiftsLaterStripsIntact ==
    [][\A i \in RemoveIdx :
          (RustRemoveStrip(i) /\ i \in Tracked /\ AllMounted) =>
             /\ Len(strips') = Len(strips) - 1
             /\ AllMounted'
             /\ \A j \in Tracked :
                   /\ j < i => Shown(j)' = Shown(j)
                   /\ j > i => Shown(j - 1)' = Shown(j)]_vars

\* C6: every strip in the Rack has a chain of exactly N slots, each an effect
\* or the explicit empty value.
C6_ChainHasExactlyNSlots ==
    \A k \in 1..Len(strips) :
        /\ ~strips[k].isString
        /\ strips[k].chain.length = N
        /\ \A i \in Slots : ChainGet(strips[k].chain, i) \in EffectNames \cup {Null}

\* C7: an effect-set or effect-removed event whose slot index is outside
\* [0, N) is discarded: no chain changes.
C7_OutOfRangeSlotDiscarded ==
    [][\A s \in StripIdx, i \in SlotIdx \ Slots :
          /\ \A e \in EffectNames : RustSetEffect(s, i, e) => Chains' = Chains
          /\ RustRemoveEffect(s, i) => Chains' = Chains]_vars

\* no effect event is on its way, in either direction
EffectTopics == {"svelte-seteffect", "svelte-removeeffect", "rust-seteffect", "rust-removeeffect"}
BusQuiet ==
    /\ \A k \in 1..Len(toEngine) : toEngine[k].topic \notin EffectTopics
    /\ toUI = <<>>

\* C8: a local setEffect(s, i, T) followed immediately by a local
\* removeEffect(s, i) leaves slot i of strip s empty once the resulting engine
\* events have been delivered, in whatever order they were.
C8_SetThenRemoveLeavesSlotEmpty ==
    \A s \in StripIdx, i \in Slots, t \in EffectNames :
        ( /\ clicks = << [op |-> "set", strip |-> s, index |-> i, option |-> t],
                         [op |-> "remove", strip |-> s, index |-> i, option |-> "Remove"] >>
          /\ BusQuiet
          /\ s \in Tracked )
        => ChainGet(strips[s + 1].chain, i) = Null

\* C9: after any adjustments by the user a dial or slider holds a value within
\* [min, max], min when the user went below and max when the user went above;
\* the gain dial's position stays within [0, 1000] and its value in [-12, 24].
C9_ControlsStayWithinBounds ==
    /\ (control.kind \in {"dial", "slider"} /\ adjusted) =>
          /\ control.min <= control.value
          /\ control.value <= control.max
          /\ raw < control.min => control.value = control.min
          /\ raw > control.max => control.value = control.max
    /\ 0 <= valueR
    /\ valueR <= RadiusMax
    /\ GainMin <= gainValue
    /\ gainValue <= GainMax
    /\ gainValue = RadiusToValue(valueR)

\* C9, witness: the user pushed a slider or dial above its max and dragged
\* the gain dial to the top
C9_Witness ==
    /\ adjusted
    /\ control.kind \in {"dial", "slider"}
    /\ raw > control.max
    /\ control.value = control.max
    /\ valueR = RadiusMax
    /\ gainValue = GainMax

\* C10: after any number of clicks a toggle's value is an integer in
\* [0, n_states).
C10_ToggleValueBelowStateCount ==
    control.kind = "toggle" => control.value \in 0..(control.n_states - 1)

----------------------------------------------------------------------------
(* The claims about the config store *)

\* the last operation was op on key
LastWas(op, key) == lastOp.op = op /\ lastOp.key = key

\* the single invocation of callback fn with (key, value)
OneCall(fn, key, value) == <<[fn |-> fn, key |-> key, value |-> value]>>

\* C11: set(key, v) invokes no listener and publishes no event when v is the
\* value stored for key; set(key, v2) with v2 another value than the stored
\* one invokes the listener registered for key exactly once.
C11_SetNotifiesExactlyOnChange ==
    \A k \in CfgKeys :
        LastWas("set", k) =>
            /\ lastOp.value = lastOp.before => (called = <<>> /\ emits = <<>>)
            /\ (lastOp.value # lastOp.before /\ onChangeMap[k] # NoCallback) =>
                  called = OneCall(onChangeMap[k], k, lastOp.value)

\* C12: right after a set(key, value) that changed the value, get(key, d)
\* returns value for every d, and a repeated set(key, value) invokes no
\* listener and publishes no event.
C12_SetUpdatesLocalMap ==
    [][\A k \in CfgKeys, v \in CfgValues :
          (LastWas("set", k) /\ lastOp.value = v /\ lastOp.before # v) =>
             /\ \A d \in CfgValues : getConfigOr(k, d) => returned' = v
             /\ setConfig(k, v) => (called' = <<>> /\ emits' = <<>>)]_vars

\* C13: an engine config-update event {key, value} writes the pair into the
\* store and invokes the callback registered for key, if any, with (key, value).
C13_EngineUpdateWritesAndNotifies ==
    \A k \in CfgKeys :
        LastWas("update", k) =>
            /\ configJSON[k] = lastOp.value
            /\ onChangeMap[k] # NoCallback =>
                  called = OneCall(onChangeMap[k], k, lastOp.value)

\* C14: get(key, default) returns the stored value when key is present and
\* default when it is absent; on an absent key it makes the key present with
\* value default, and a get(key, d2) right after returns default and
\* publishes nothing.
C14_GetMaterializesDefault ==
    [][\A k \in CfgKeys, d2 \in CfgValues :
          getConfigOr(k, d2) =>
             /\ returned' = (IF configJSON[k] # Undefined THEN configJSON[k] ELSE d2)
             /\ configJSON[k] = Undefined => configJSON'[k] = d2
             /\ (LastWas("get", k) /\ lastOp.before = Undefined) =>
                   (returned' = lastOp.value /\ emits' = <<>>)]_vars

\* C15: after onChange(k, f) followed by onChange(k, g), a set(k, v) that
\* changes the value invokes g once, with (k, v), and nothing else: not f,
\* and no callback registered for another key.
C15_LastRegistrationWins ==
    [][\A k \in CfgKeys, v \in CfgValues :
          ( /\ prevOp.op = "onChange" /\ prevOp.key = k
            /\ LastWas("onChange", k)
            /\ setConfig(k, v)
            /\ v # configJSON[k] )
          => called' = OneCall(lastOp.value, k, v)]_vars

\* C16: when a local set(k, a) and an engine config-update (k, b) were applied
\* one after the other, in either order, the value stored for k is that of
\* the one applied last.
C16_LastWriteWins ==
    \A k \in CfgKeys :
        ( /\ {prevOp.op, lastOp.op} = {"set", "update"}
          /\ prevOp.key = k
          /\ lastOp.key = k )
        => configJSON[k] = lastOp.value

----------------------------------------------------------------------------
(* The claims about announced strips, effect events, controls and routes *)

\* C17: a strip-announced event with payload {input, chain, output} appends
\* exactly one strip carrying that input, chain and output at the end of the
\* Rack, and the strips already there keep their position and content.
C17_AnnouncedStripAppended ==
    [][\A p \in Payloads :
          RustUpdateStrip(p) =>
             /\ Len(strips') = Len(strips) + 1
             /\ ~strips'[Len(strips')].isString
             /\ strips'[Len(strips')].input = p.input
             /\ strips'[Len(strips')].chain = p.chain
             /\ strips'[Len(strips')].output = p.output
             /\ \A k \in 1..Len(strips) : strips'[k] = strips[k]]_vars

\* C17, witness: two strips were announced with different payloads; each sits
\* at the position it was appended at, with the payload it was announced with
C17_Witness ==
    /\ Len(strips) = 2
    /\ strips[1].id = 1
    /\ strips[2].id = 2
    /\ strips[1].input = "mono0"
    /\ strips[1].chain = EmptyChain
    /\ strips[2].input = "sine"
    /\ ChainGet(strips[2].chain, 0) = "Delay"
    /\ strips[2].output = "stereo01"

\* C18: an effect-set event {strip: s, index: i, effect: E} with s a tracked
\* strip and i in [0, N) makes slot i of strip s hold E and leaves every other
\* slot of strip s and every slot of every other strip as it was.
C18_SetEffectWritesAddressedSlotOnly ==
    [][\A s \in StripIdx, i \in SlotIdx \cap Slots, e \in EffectNames :
          (RustSetEffect(s, i, e) /\ s \in Tracked) =>
             /\ Len(strips') = Len(strips)
             /\ ChainGet(strips'[s + 1].chain, i) = e
             /\ \A k \in 1..Len(strips) :
                   /\ strips'[k].chain.length = strips[k].chain.length
                   /\ \A j \in Slots :
                         (k # s + 1 \/ j # i) =>
                            ChainGet(strips'[k].chain, j) = ChainGet(strips[k].chain, j)]_vars

\* the event a change of the control to value v is claimed to publish
ControlEvent(v) ==
    [topic |-> "svelte-updatestrip", kind |-> "control", control |-> control.kind,
     strip |-> shownAt.strip, index |-> shownAt.index, name |-> control.name, value |-> v]

\* the event a change of the gain dial to value v is claimed to publish
GainEvent(v) ==
    [topic |-> "svelte-seteffectvalue", strip |-> shownAt.strip, index |-> shownAt.index,
     value_name |-> "gain", value_kind |-> "float", value |-> v]

\* C19: every change the user makes to the value of a control (dial, slider,
\* toggle or the gain dial) publishes one event that carries the strip index,
\* the slot index, the control's name and the new value.
C19_ControlChangePublished ==
    [][ /\ control'.value # control.value => emits' = <<ControlEvent(control'.value)>>
        /\ gainValue' # gainValue => emits' = <<GainEvent(gainValue')>> ]_vars

\* the kind an update-strip event carries for a selected route
RouteKind(isInput, option) ==
    CASE option = "Mono" -> IF isInput THEN "input-mono" ELSE "output-mono"
      [] option = "Stereo" -> IF isInput THEN "input-stereo" ELSE "output-stereo"
      [] option = "Bus" -> IF isInput THEN "input-bus" ELSE "output-bus"
      [] option = "Generator" -> "input-generator"

\* C20: when the user selects a route on strip s (Mono, Stereo, Bus or
\* Generator for the input; Mono, Stereo or Bus for the output) the route
\* shown for the strip becomes the selection and one update-strip event
\* carrying s and the kind of the selected variant is published.
C20_RouteSelectionPublished ==
    [][\A s \in StripIdx :
          /\ \A o \in InputOptions :
                SelectInput(s, o) =>
                   /\ comps'[s + 1].inType = o
                   /\ Len(emits') = 1
                   /\ emits'[1].topic = "svelte-updatestrip"
                   /\ emits'[1].index = s
                   /\ emits'[1].kind = RouteKind(TRUE, o)
          /\ \A o \in OutputOptions \ {"None"} :
                SelectOutput(s, o) =>
                   /\ comps'[s + 1].outType = o
                   /\ Len(emits') = 1
                   /\ emits'[1].topic = "svelte-updatestrip"
                   /\ emits'[1].index = s
                   /\ emits'[1].kind = RouteKind(FALSE, o)]_vars

----------------------------------------------------------------------------
(* The claims about local mutations, convergence and the listeners *)

\* C21: right after a local setEffect(s, i, T) slot i of strip s holds T, and
\* right after a local removeEffect(s, i) it is empty, before any event of
\* the engine is received.
C21_LocalMutationUpdatesLocalState ==
    [][\A s \in StripIdx, i \in SlotIdx \cap Slots :
          s \in Tracked =>
             /\ \A t \in EffectNames :
                   ClickSetEffect(s, i, t) => ChainGet(strips'[s + 1].chain, i) = t
             /\ ClickRemoveEffect(s, i) => ChainGet(strips'[s + 1].chain, i) = Null]_vars

\* no event is on its way in either direction
AllDelivered == toEngine = <<>> /\ toUI = <<>>

\* a slot of the UI's Rack holds an effect
Occupied(k, i) == ChainGet(strips[k].chain, i) \notin {Null, Undefined}

\* C22: once every published event has been delivered and applied, the UI's
\* Rack and the engine's rack have the same number of strips and the same
\* occupancy of every slot.
C22_ViewsConverge ==
    AllDelivered =>
        /\ Len(strips) = Len(engineRack)
        /\ \A k \in 1..Len(strips), i \in Slots :
              Occupied(k, i) <=> engineRack[k][i] # Null

\* C23: a strips-cleared event leaves the Rack empty whatever it held, and a
\* strip announced into the emptied Rack is at position 0.
C23_ClearEmptiesRack ==
    [][ /\ clearLog'.count = clearLog.count + 1 => strips' = <<>>
        /\ \A p \in Payloads :
              (clearLog.count > 0 /\ strips = <<>> /\ RustUpdateStrip(p)) =>
                 /\ Len(strips') = 1
                 /\ strips'[1].input = p.input
                 /\ ~dead' => (Len(comps') = 1 /\ comps'[1].strip = strips'[1].id) ]_vars

\* C23, witness: a clear found two announced strips in the Rack, and the strip
\* announced after it is the only one, at position 0
C23_Witness ==
    /\ clearLog.count = 1
    /\ clearLog.held = 2
    /\ Len(strips) = 1
    /\ strips[1].id = 3
    /\ Len(comps) = 1
    /\ comps[1].strip = 3

\* the events that change the chain of strip s
ChainMutation(ev, s) ==
    /\ ev.topic \in {"svelte-seteffect", "svelte-removeeffect"}
    /\ ev.strip = s

\* C24: the mutations of one strip's chain are published on one topic, and
\* the engine can only take the oldest of those still on the bus, so it
\* observes them in the order the user made them.
C24_ChainMutationsInOrder ==
    \A s \in StripIdx :
        \A k \in 1..Len(toEngine) :
            ChainMutation(toEngine[k], s) =>
                \A j \in 1..(k - 1) :
                    ChainMutation(toEngine[j], s) =>
                        /\ toEngine[j].topic = toEngine[k].topic
                        /\ k \notin Deliverable(toEngine)

\* C25: applying an event of the engine (strip-announced, strip-removed,
\* effect-set, effect-removed) publishes nothing.
C25_EngineEventsPublishNothing ==
    [][ ( \/ \E p \in Payloads : RustUpdateStrip(p)
          \/ \E i \in RemoveIdx : RustRemoveStrip(i)
          \/ \E s \in StripIdx, i \in SlotIdx, e \in EffectNames : RustSetEffect(s, i, e)
          \/ \E s \in StripIdx, i \in SlotIdx : RustRemoveEffect(s, i) )
        => emits' = <<>> ]_vars

\* only strip-announced and strip-removed events have been handled so far
OnlyAnnouncedAndRemoved == additions = nextId - 1 /\ clearLog.count = 0

\* C26: after strip-announced and strip-removed events only, the registered
\* effect listeners are those of the strips in the Rack, one per position, so
\* an effect-set event {strip: s} reaches at most the strip at position s.
C26_ListenersMatchStrips ==
    OnlyAnnouncedAndRemoved =>
        /\ Listeners = {[idx |-> k - 1, strip |-> strips[k].id] : k \in 1..Len(strips)}
        /\ \A s \in StripIdx :
              \A k \in 1..Len(strips) :
                  strips[k].id \in SetEffectTargets(s) => k = s + 1

----------------------------------------------------------------------------
(* The claims about the audio settings panel and the console *)

\* C27: after the host selection changed several times, once every backend
\* response has arrived the output and input device lists shown are those of
\* the host selected last, whatever order the responses completed in.
C27_DeviceListsOfLastHost ==
    (selections >= 1 /\ calls = {}) =>
        /\ outputDevices = OutputDevicesOf(hostname)
        /\ inputDevices = InputDevicesOf(hostname)

\* the last key was Enter on an exit command
RanExit == lastKey.key = "Enter" /\ CommandOf(Normalize(lastKey.text)) = "exit"

\* C28: confirm_exit is invoked only by an exit command that an earlier exit
\* command preceded; the first exit command invokes exit and sets confirmExit;
\* no other command invokes confirm_exit.
C28_ConfirmExitOnlyAfterExit ==
    /\ (\E k \in 1..Len(issued) : issued[k] = "confirm_exit") => (RanExit /\ exits >= 2)
    /\ (RanExit /\ exits = 1) => (issued = <<"exit">> /\ confirmExit)
    /\ exits = 0 => ~confirmExit

\* C28, witness: the second exit command has just invoked confirm_exit
C28_Witness ==
    /\ RanExit
    /\ exits = 2
    /\ issued = <<"confirm_exit">>

\* C29: commandHistoryIndex is in [-1, length(commandHistory) - 1]; running a
\* command resets it to -1 and puts the command at position 0 of the history;
\* an ArrowUp or ArrowDown that writes a history entry reads an existing one.
C29_HistoryIndexInRange ==
    /\ commandHistoryIndex \in -1..(Len(commandHistory) - 1)
    /\ lastKey.key = "Enter" =>
          /\ commandHistoryIndex = -1
          /\ HistoryGet(0) = Normalize(lastKey.text)
    /\ \A i \in lastKey.read :
          /\ i \in 0..(Len(commandHistory) - 1)
          /\ inputValue = commandHistory[i + 1]

\* C29, witness: with three commands in the history the user went up to the
\* oldest and one back down
C29_Witness ==
    /\ Len(commandHistory) = 3
    /\ lastKey.key = "ArrowDown"
    /\ lastKey.read = {1}
    /\ commandHistoryIndex = 1

\* C30: ArrowDown pressed while the newest entry is shown (index 0) restores
\* the saved text and sets the index to -1, so that the ArrowUp after it shows
\* the newest entry again.
C30_ArrowDownLeavesHistory ==
    [][ /\ (KeyArrowDown /\ commandHistoryIndex = 0) =>
              /\ inputValue' = commandCurrent
              /\ commandHistoryIndex' = -1
        /\ (KeyArrowUp /\ lastKey.key = "ArrowDown" /\ lastKey.read = {}
              /\ commandHistory # <<>>) =>
              inputValue' = commandHistory[1] ]_vars

====
